---- MODULE Spec2Model ----
(***************************************************************************)
(* The scope tree of svh::scope<BaseTemplate> (the template snapshot of    *)
(* the header, src/unnamed/part_003 lines 525-1102) with the payload type  *)
(* type_settings<int> of the unit tests (src/unnamed/part_001), and the    *)
(* first snapshot of src/scope.hpp, the one that has SVH_RECURSIVE_SEARCH. *)
(*                                                                         *)
(* A node is a heap object.  The state is the heap: a function from the    *)
(* addresses of the live objects to their members (the parent pointer, the *)
(* two child maps, active_member, the dynamic type and the payload fields).*)
(* An operation of the class is an operator from a heap to a heap and an   *)
(* outcome; an action applies one to the current heap.                     *)
(***************************************************************************)
EXTENDS Integers, FiniteSets, Sequences, TLC

(* ------------------------------ bounds --------------------------------- *)

\* Number of heap objects (the root scope included) a run may hold.
MaxNodes == 4

\* Largest count handed to pop(count).
MaxPop == 2

\* Longest template argument list handed to the variadic push and get.
MaxTypeArgs == 2

(* ------------------------- program constants --------------------------- *)

\* std::numeric_limits<int>::min() / max(): the defaults of type_settings<int>.
INT_MIN == -2147483647 - 1
INT_MAX == 2147483647

\* std::numeric_limits<std::size_t>::max(), the offset of an invalid member_id:
\* the all-ones size_t, written as its two's-complement reading.
SIZE_MAX == -1

\* The null pointer, and the address of the root scope object.
NULL == 0
Root == 1

\* The address of a second scope object of the caller, copy-constructed from
\* the root scope (svh::scope dev_config = production_config).
CopyRoot == 2

\* Types used as keys.  "scope" is the dynamic type of the root object
\* (svh::scope<type_settings> itself), "void" the type of no object.
Types == {"int", "TestStruct"}

\* The template arguments the callers write: the types and their
\* cv-qualified forms (push<const int>() in test push_single_const).
CvTypes ==
    Types \cup {"const int", "volatile int", "const volatile int",
                "const TestStruct", "volatile TestStruct",
                "const volatile TestStruct"}

\* std::remove_cv_t<T>: the type without its top-level const and volatile.
remove_cv_t(T) ==
    IF T \in {"const int", "volatile int", "const volatile int"} THEN "int"
    ELSE IF T \in {"const TestStruct", "volatile TestStruct",
                   "const volatile TestStruct"} THEN "TestStruct"
    ELSE T

\* std::decay_t<T>: none of the types here is a reference, an array or a
\* function, so what is left of decay is the removal of cv.
decay_t(T) == remove_cv_t(T)

\* Values the callers hand to the setters min() and max().
MinVals == {-50}
MaxVals == {50}

(* ------------------------------ member_id ------------------------------ *)

InvalidMember == [struct_type |-> "void", member_type |-> "void", offset |-> SIZE_MAX]

\* struct TestStruct { int a; int b; };
Member_a == [struct_type |-> "TestStruct", member_type |-> "int", offset |-> 0]
Member_b == [struct_type |-> "TestStruct", member_type |-> "int", offset |-> 4]
MemberIds == {Member_a, Member_b}

is_valid(m) ==
    m.struct_type # "void" /\ m.member_type # "void" /\ m.offset # SIZE_MAX

(* ------------------------------- state --------------------------------- *)

VARIABLES
    heap,                  \* address -> scope object
    SVH_AUTO_INSERT,       \* the compile-time switch, fixed for a whole run
    SVH_RECURSIVE_SEARCH   \* the switch of src/scope.hpp, fixed for a whole run

vars == <<heap, SVH_AUTO_INSERT, SVH_RECURSIVE_SEARCH>>

nodes == DOMAIN heap

NoChildren == [T \in Types |-> NULL]
NoMemberChildren == [m \in MemberIds |-> NULL]

\* The fields of a default-constructed BaseTemplate<T>: only type_settings<int>
\* declares fields; the primary template declares none (kept at 0 here).
default_min(T) == IF T = "int" THEN INT_MIN ELSE 0
default_max(T) == IF T = "int" THEN INT_MAX ELSE 0

\* Outcome of a call: a returned pointer/reference, or a thrown runtime_error.
Ok(n) == [err |-> "none", node |-> n]
Throw(msg) == [err |-> msg, node |-> NULL]

ChildMismatch == "Existing child has unexpected type"
MemberMismatch == "Existing member child has unexpected type"
TypeNotFound == "Type not found"
MemberNotFound == "Member settings not found"
NoParent == "No parent to pop to"
OutOfBounds == "Member is not within instance bounds"

(* ----------------------------- the heap -------------------------------- *)

is_root(h, self) == h[self].parent = NULL
has_parent(h, self) == h[self].parent # NULL

\* get_type_key<T>(): typeid(std::decay_t<T>); the callers strip cv before.
get_type_key(T) == decay_t(T)

\* dynamic_cast<BaseTemplate<T>*>(p): p when the object is a BaseTemplate<T>.
dynamic_cast(h, p, T) == IF h[p].type = T THEN p ELSE NULL

\* operator new.  Nothing reads an address as a number, so the model is free
\* to choose them: the object about to be attached to `self` under `key` gets
\* the address that spells its place (base 5, one digit per key), which makes
\* equal trees equal heaps.
type_digit(T) == IF T = "int" THEN 1 ELSE 2
member_digit(m) == IF m.offset = 0 THEN 3 ELSE 4

fresh(self, digit) == self * 5 + digit

\* std::make_unique<BaseTemplate<T>>(): a default-constructed object.
default_object(T) ==
    [parent |-> NULL, children |-> NoChildren,
     member_children |-> NoMemberChildren, active_member |-> InvalidMember,
     type |-> T, _min |-> default_min(T), _max |-> default_max(T)]

\* The heap with the object `obj` at address n.
store(h, n, obj) == [x \in DOMAIN h \cup {n} |-> IF x = n THEN obj ELSE h[x]]

\* The objects owned, directly or not, by the objects of `frontier`.
RECURSIVE owned(_, _, _)
owned(h, seen, frontier) ==
    IF frontier = {} THEN seen
    ELSE LET next == {c \in DOMAIN h : \E n \in frontier :
                         \/ \E T \in Types : h[n].children[T] = c
                         \/ \E m \in MemberIds : h[n].member_children[m] = c}
         IN owned(h, seen \cup frontier, next \ (seen \cup frontier))

\* The shared_ptr's of the child maps: an object nothing owns any more is
\* destroyed.  The scope objects at Root and CopyRoot belong to the caller.
release(h) ==
    LET live == owned(h, {}, {Root, CopyRoot} \cap DOMAIN h)
    IN [x \in live |-> h[x]]

\* scope(const scope&), implicitly defined: the object at dst is built as a
\* memberwise copy of the object at src.  The maps of shared_ptr are copied
\* entry by entry, so dst holds the very children src holds, and their
\* parent pointers keep pointing at src.
scope_copy(h, src, dst) == [h |-> store(h, dst, h[src]), ret |-> Ok(dst)]

\* unordered_map::emplace: inserts unless the key is present.
emplace(map, key, n) == IF map[key] = NULL THEN [map EXCEPT ![key] = n] ELSE map

(* ------------------------------- find ---------------------------------- *)

\* A variant of find with a slip in it, used to test the properties below:
\* the recursion to the parent is forgotten.
find_never_climbs(h, self, T, child_member_id) ==
    LET it == h[self].children[get_type_key(T)]
    IN  IF it # NULL THEN Ok(it) ELSE Ok(NULL)

RECURSIVE find(_, _, _, _)
find(h, self, T, child_member_id) ==
    LET key == get_type_key(T)
        mit == IF is_valid(child_member_id)
               THEN h[self].member_children[child_member_id] ELSE NULL
        it  == h[self].children[key]
    IN  IF is_valid(child_member_id) /\ mit # NULL
        THEN IF dynamic_cast(h, mit, T) = NULL
             THEN Throw(MemberMismatch) ELSE Ok(mit)
        ELSE IF ~is_valid(child_member_id) /\ it # NULL
        THEN IF dynamic_cast(h, it, T) = NULL
             THEN Throw(ChildMismatch) ELSE Ok(it)
        ELSE IF has_parent(h, self)
        THEN find(h, h[self].parent, T, h[self].active_member)
        ELSE Ok(NULL)

(* ---------------------------- emplace_new ------------------------------ *)

emplace_new(h, self, T) ==
    LET key == get_type_key(T)
        child == fresh(self, type_digit(key))
        obj == [default_object(T) EXCEPT !.parent = self,
                                         !.children = NoChildren,
                                         !.member_children = NoMemberChildren]
        h1 == store(h, child, obj)
        h2 == [h1 EXCEPT ![self].children = emplace(@, key, child)]
    IN  [h |-> h2, ret |-> Ok(child)]

(* ------------------------------- _push --------------------------------- *)

\* Variants of _push with a slip in them, used to test the properties below.
\* (1) the copy branch is forgotten: a missing child is always default-built.
_push_never_copies(h, self, T) ==
    LET it == h[self].children[get_type_key(T)]
    IN  IF it # NULL THEN [h |-> h, ret |-> Ok(it)] ELSE emplace_new(h, self, T)

\* (2) the node found up the chain is attached itself instead of a copy of it.
_push_shares(h, self, T) ==
    LET key == get_type_key(T)
        it == h[self].children[key]
        found == IF has_parent(h, self)
                 THEN find(h, self, T, InvalidMember) ELSE Ok(NULL)
    IN  IF it # NULL THEN [h |-> h, ret |-> Ok(it)]
        ELSE IF found.err # "none" THEN [h |-> h, ret |-> found]
        ELSE IF found.node # NULL
        THEN [h |-> [h EXCEPT ![self].children = emplace(@, key, found.node)],
              ret |-> found]
        ELSE emplace_new(h, self, T)

\* (3) the reuse branch is forgotten: an existing child is built anew.
_push_never_reuses(h, self, T) ==
    LET key == get_type_key(T)
        child == fresh(self, type_digit(key))
        obj == [default_object(T) EXCEPT !.parent = self]
    IN  [h |-> [store(h, child, obj) EXCEPT ![self].children[key] = child],
         ret |-> Ok(child)]

\* (4) the two clear() calls on the copy are forgotten: the copy keeps the
\* child maps of the node it was copied from.
_push_keeps_maps(h, self, T) ==
    LET key == get_type_key(T)
        it == h[self].children[key]
        found == IF has_parent(h, self)
                 THEN find(h, self, T, InvalidMember) ELSE Ok(NULL)
    IN  IF it # NULL THEN [h |-> h, ret |-> Ok(it)]
        ELSE IF found.err # "none" THEN [h |-> h, ret |-> found]
        ELSE IF found.node # NULL
        THEN LET child == fresh(self, type_digit(key))
                 obj == [h[found.node] EXCEPT !.parent = self]
             IN  [h |-> [store(h, child, obj) EXCEPT
                            ![self].children = emplace(@, key, child)],
                  ret |-> Ok(child)]
        ELSE emplace_new(h, self, T)

\* (5) an existing child is not handed back as it is: its fields are set
\* back to the defaults first.
_push_resets_existing(h, self, T) ==
    LET it == h[self].children[get_type_key(T)]
    IN  IF it # NULL
        THEN [h |-> [h EXCEPT ![it]._min = default_min(T),
                              ![it]._max = default_max(T)],
              ret |-> Ok(it)]
        ELSE emplace_new(h, self, T)

\* std::make_unique<BaseTemplate<T>>(*found): the implicit copy constructor
\* copies every member of scope (parent, both maps, active_member) and the
\* fields of the payload; _push then sets parent and clears the two maps.
_push(h, self, T) ==
    LET key == get_type_key(T)
        it == h[self].children[key]
    IN  IF it # NULL
        THEN IF dynamic_cast(h, it, T) = NULL
             THEN [h |-> h, ret |-> Throw(ChildMismatch)]
             ELSE [h |-> h, ret |-> Ok(it)]
        ELSE LET found == IF has_parent(h, self)
                          THEN find(h, self, T, InvalidMember) ELSE Ok(NULL)
             IN  IF found.err # "none" THEN [h |-> h, ret |-> found]
                 ELSE IF found.node # NULL
                 THEN LET child == fresh(self, type_digit(key))
                          obj == [h[found.node] EXCEPT
                                     !.parent = self,
                                     !.children = NoChildren,
                                     !.member_children = NoMemberChildren]
                          h1 == store(h, child, obj)
                          h2 == [h1 EXCEPT ![self].children = emplace(@, key, child)]
                      IN  [h |-> h2, ret |-> Ok(child)]
                 ELSE emplace_new(h, self, T)

(* ---------------------------- push_default ----------------------------- *)

\* *found = BaseTemplate<T>{}: the implicit copy assignment assigns every
\* member of scope from a default-constructed temporary (parent, both child
\* maps, active_member) as well as the payload fields.  The objects the
\* cleared maps owned are destroyed.
\* A variant of push_default with a slip in it, used to test the properties
\* below: a missing child is created the way push<T>() creates it, copied
\* from what the lookup resolves.
push_default_inherits(h, self, T) == _push(h, self, T)

push_default(h, self, T) ==
    LET key == get_type_key(T)
        it == h[self].children[key]
    IN  IF it # NULL
        THEN IF dynamic_cast(h, it, T) = NULL
             THEN [h |-> h, ret |-> Throw(ChildMismatch)]
             ELSE [h |-> release([h EXCEPT ![it] = default_object(T)]),
                   ret |-> Ok(it)]
        ELSE emplace_new(h, self, T)

(* -------------------------------- _get --------------------------------- *)

\* Variants of _get with a slip in them, used to test the properties below.
\* (1) get resolves by pushing: an ancestor's node is copied under self.
_get_pushes(h, self, T, auto_insert) == _push(h, self, T)

\* (2) the guard of the earlier snapshots: a missing type is inserted only
\* when get is invoked on a node without parent.
_get_inserts_at_root_only(h, self, T, auto_insert) ==
    LET found == find(h, self, T, InvalidMember)
    IN  IF found.err # "none" THEN [h |-> h, ret |-> found]
        ELSE IF found.node # NULL THEN [h |-> h, ret |-> found]
        ELSE IF is_root(h, self) /\ auto_insert THEN emplace_new(h, self, T)
        ELSE [h |-> h, ret |-> Throw(TypeNotFound)]

\* (3) SVH_AUTO_INSERT is not consulted: a missing type is always inserted.
_get_always_inserts(h, self, T, auto_insert) ==
    LET found == find(h, self, T, InvalidMember)
    IN  IF found.err # "none" THEN [h |-> h, ret |-> found]
        ELSE IF found.node # NULL THEN [h |-> h, ret |-> found]
        ELSE emplace_new(h, self, T)

\* (4) a missing type is inserted one level up, under the parent of the node
\* of the call when it has one.
_get_inserts_at_parent(h, self, T, auto_insert) ==
    LET found == find(h, self, T, InvalidMember)
    IN  IF found.err # "none" THEN [h |-> h, ret |-> found]
        ELSE IF found.node # NULL THEN [h |-> h, ret |-> found]
        ELSE IF auto_insert
        THEN emplace_new(h, IF has_parent(h, self) THEN h[self].parent ELSE self, T)
        ELSE [h |-> h, ret |-> Throw(TypeNotFound)]

_get(h, self, T, auto_insert) ==
    LET found == find(h, self, T, InvalidMember)
    IN  IF found.err # "none" THEN [h |-> h, ret |-> found]
        ELSE IF found.node # NULL THEN [h |-> h, ret |-> found]
        ELSE IF auto_insert THEN emplace_new(h, self, T)
        ELSE [h |-> h, ret |-> Throw(TypeNotFound)]

(* ---------------------- push and get, the public forms ----------------- *)

\* Variants of push and get with a slip in them, used to test the
\* properties below: every type of the list is pushed (looked up) on the
\* node of the call instead of on the node the step before returned.
RECURSIVE push_all_on_self(_, _, _)
push_all_on_self(h, self, Ts) ==
    LET next == _push(h, self, remove_cv_t(Head(Ts)))
    IN  IF Len(Ts) = 1 \/ next.ret.err # "none" THEN next
        ELSE push_all_on_self(next.h, self, Tail(Ts))

RECURSIVE get_all_on_self(_, _, _, _)
get_all_on_self(h, self, Ts, auto_insert) ==
    LET next == _get(h, self, remove_cv_t(Head(Ts)), auto_insert)
    IN  IF Len(Ts) = 1 \/ next.ret.err # "none" THEN next
        ELSE get_all_on_self(next.h, self, Tail(Ts), auto_insert)

\* push<T>() and push<T, U, Rest...>(): Ts is the template argument list.
\* An exception of a step leaves the call with what the steps before did.
\* A variant of push with another slip: the template argument is handed on
\* to _push with its cv-qualifiers.
RECURSIVE push_keeps_cv(_, _, _)
push_keeps_cv(h, self, Ts) ==
    LET next == _push(h, self, Head(Ts))
    IN  IF Len(Ts) = 1 THEN next
        ELSE IF next.ret.err # "none" THEN next
        ELSE push_keeps_cv(next.h, next.ret.node, Tail(Ts))

RECURSIVE push(_, _, _)
push(h, self, Ts) ==
    LET next == _push(h, self, remove_cv_t(Head(Ts)))
    IN  IF Len(Ts) = 1 THEN next
        ELSE IF next.ret.err # "none" THEN next
        ELSE push(next.h, next.ret.node, Tail(Ts))

\* get<T>() and get<T, U, Rest...>().
RECURSIVE get(_, _, _, _)
get(h, self, Ts, auto_insert) ==
    LET next == _get(h, self, remove_cv_t(Head(Ts)), auto_insert)
    IN  IF Len(Ts) = 1 THEN next
        ELSE IF next.ret.err # "none" THEN next
        ELSE get(next.h, next.ret.node, Tail(Ts), auto_insert)

(* ------------------------- member-keyed lookup ------------------------- *)

\* sizeof(TestStruct): two ints.
SizeofTestStruct == 8

\* Offsets (member address - instance address) the callers of the runtime
\* form hand in for an int: instance.a, instance.b, and an int that lies
\* behind or before the instance.
RuntimeOffsets == {0, 4, 8, -4}

\* A variant of find_member with a slip in it, used to test the properties
\* below: the plain child of the member's type is looked at before the
\* member map.
RECURSIVE find_member_prefers_plain_child(_, _, _)
find_member_prefers_plain_child(h, self, member) ==
    LET member_it == h[self].children[get_type_key(member.member_type)]
        it == h[self].member_children[member]
    IN  IF member_it # NULL THEN Ok(member_it)
        ELSE IF it # NULL THEN Ok(it)
        ELSE IF has_parent(h, self)
        THEN find_member_prefers_plain_child(h, h[self].parent, member)
        ELSE Ok(NULL)

RECURSIVE find_member(_, _, _)
find_member(h, self, member) ==
    LET struct_type == get_type_key(member.struct_type)
        member_type == get_type_key(member.member_type)
        key == member
        it == h[self].member_children[key]
        class_it == h[self].children[struct_type]
        member_it == h[self].children[member_type]
        found == IF class_it # NULL /\ dynamic_cast(h, class_it, member.struct_type) # NULL
                 THEN find(h, class_it, member.member_type, key) ELSE Ok(NULL)
    IN  IF it # NULL
        THEN IF dynamic_cast(h, it, member.member_type) = NULL
             THEN Throw(MemberMismatch) ELSE Ok(it)
        ELSE IF class_it # NULL /\ dynamic_cast(h, class_it, member.struct_type) = NULL
        THEN Throw(ChildMismatch)
        ELSE IF class_it # NULL /\ (found.err # "none" \/ found.node # NULL)
        THEN found
        ELSE IF member_it # NULL
        THEN IF dynamic_cast(h, member_it, member.member_type) = NULL
             THEN Throw(ChildMismatch) ELSE Ok(member_it)
        ELSE IF has_parent(h, self)
        THEN find_member(h, h[self].parent, member)
        ELSE Ok(NULL)

\* A variant of find_member_runtime with a slip in it, used to test the
\* properties below: the address of the member is not checked against the
\* bounds of the instance.
RECURSIVE find_member_runtime_unchecked(_, _, _, _, _)
find_member_runtime_unchecked(h, self, T, M, member_offset) ==
    LET key == [struct_type |-> get_type_key(T), member_type |-> get_type_key(M),
                offset |-> member_offset]
        it == IF key \in MemberIds THEN h[self].member_children[key] ELSE NULL
    IN  IF it # NULL THEN Ok(it)
        ELSE IF has_parent(h, self)
        THEN find_member_runtime_unchecked(h, h[self].parent, T, M, member_offset)
        ELSE Ok(NULL)

RECURSIVE find_member_runtime(_, _, _, _, _)
find_member_runtime(h, self, T, M, member_offset) ==
    LET struct_type == get_type_key(T)
        member_type == get_type_key(M)
        key == [struct_type |-> struct_type, member_type |-> member_type,
                offset |-> member_offset]
        it == h[self].member_children[key]
        class_it == h[self].children[struct_type]
        found == IF class_it # NULL /\ dynamic_cast(h, class_it, T) # NULL
                 THEN find(h, class_it, M, InvalidMember) ELSE Ok(NULL)
    IN  IF member_offset < 0 \/ member_offset >= SizeofTestStruct
        THEN Throw(OutOfBounds)
        ELSE IF it # NULL
        THEN IF dynamic_cast(h, it, M) = NULL
             THEN Throw(MemberMismatch) ELSE Ok(it)
        ELSE IF class_it # NULL /\ dynamic_cast(h, class_it, T) = NULL
        THEN Throw(ChildMismatch)
        ELSE IF class_it # NULL /\ (found.err # "none" \/ found.node # NULL)
        THEN found
        ELSE IF has_parent(h, self)
        THEN find_member_runtime(h, h[self].parent, T, M, member_offset)
        ELSE Ok(NULL)

(* ----------------------------- push_member ----------------------------- *)

\* A variant of push_member with a slip in it, used to test the properties
\* below: the copy branch is forgotten, a missing member node is always
\* default-built.
push_member_never_copies(h, self, member) ==
    LET it == h[self].member_children[member]
        child == fresh(self, member_digit(member))
        obj == [default_object(member.member_type) EXCEPT !.parent = self,
                                                          !.active_member = member]
    IN  IF it # NULL THEN [h |-> h, ret |-> Ok(it)]
        ELSE [h |-> [store(h, child, obj) EXCEPT ![self].member_children[member] = child],
              ret |-> Ok(child)]

push_member(h, self, member) ==
    LET key == member
        MemberType == member.member_type
        it == h[self].member_children[key]
    IN  IF it # NULL
        THEN IF dynamic_cast(h, it, MemberType) = NULL
             THEN [h |-> h, ret |-> Throw(MemberMismatch)]
             ELSE [h |-> h, ret |-> Ok(it)]
        ELSE LET found == IF has_parent(h, self)
                          THEN find_member(h, self, member) ELSE Ok(NULL)
                 child == fresh(self, member_digit(key))
                 src == IF found.node # NULL
                        THEN h[found.node] ELSE default_object(MemberType)
                 obj == [src EXCEPT !.parent = self,
                                    !.children = NoChildren,
                                    !.member_children = NoMemberChildren,
                                    !.active_member = key]
                 h1 == store(h, child, obj)
                 h2 == [h1 EXCEPT ![self].member_children = emplace(@, key, child)]
             IN  IF found.err # "none" THEN [h |-> h, ret |-> found]
                 ELSE [h |-> h2, ret |-> Ok(child)]

(* ----------------------------- get_member ------------------------------ *)

\* A variant of get_member with a slip in it, used to test the properties
\* below: the guard of the earlier snapshots, a missing member node is
\* inserted only on a node without parent.
get_member_inserts_at_root_only(h, self, member, auto_insert) ==
    LET found == find_member(h, self, member)
    IN  IF found.err # "none" THEN [h |-> h, ret |-> found]
        ELSE IF found.node # NULL THEN [h |-> h, ret |-> found]
        ELSE IF is_root(h, self) /\ auto_insert THEN push_member(h, self, member)
        ELSE [h |-> h, ret |-> Throw(MemberNotFound)]

get_member(h, self, member, auto_insert) ==
    LET found == find_member(h, self, member)
    IN  IF found.err # "none" THEN [h |-> h, ret |-> found]
        ELSE IF found.node # NULL THEN [h |-> h, ret |-> found]
        ELSE IF auto_insert THEN push_member(h, self, member)
        ELSE [h |-> h, ret |-> Throw(MemberNotFound)]

get_member_runtime(h, self, T, M, member_offset, auto_insert) ==
    LET found == find_member_runtime(h, self, T, M, member_offset)
        key == [struct_type |-> get_type_key(T), member_type |-> get_type_key(M),
                offset |-> member_offset]
        child == fresh(self, member_digit(key))
        obj == [default_object(M) EXCEPT !.parent = self]
        h1 == store(h, child, obj)
        h2 == [h1 EXCEPT ![self].member_children = emplace(@, key, child)]
    IN  IF found.err # "none" THEN [h |-> h, ret |-> found]
        ELSE IF found.node # NULL THEN [h |-> h, ret |-> found]
        ELSE IF auto_insert THEN [h |-> h2, ret |-> Ok(child)]
        ELSE [h |-> h, ret |-> Throw(MemberNotFound)]

(* ------------------------ the const forms of get ----------------------- *)

\* A variant of the const _get with a slip in it, used to test the
\* properties below: it does what the non-const _get does with auto-insert.
_get_const_inserts(h, self, T) == _get(h, self, T, TRUE)

\* const BaseTemplate<T>& _get() const: SVH_AUTO_INSERT is not consulted.
_get_const(h, self, T) ==
    LET found == find(h, self, T, InvalidMember)
    IN  IF found.err # "none" THEN [h |-> h, ret |-> found]
        ELSE IF found.node # NULL THEN [h |-> h, ret |-> found]
        ELSE [h |-> h, ret |-> Throw(TypeNotFound)]

\* get<T>() const and get<T, U, Rest...>() const: next is a reference to a
\* const object, so the call on it is again the const form.
RECURSIVE get_const(_, _, _)
get_const(h, self, Ts) ==
    LET next == _get_const(h, self, remove_cv_t(Head(Ts)))
    IN  IF Len(Ts) = 1 THEN next
        ELSE IF next.ret.err # "none" THEN next
        ELSE get_const(next.h, next.ret.node, Tail(Ts))

\* get_member<member>() const.
get_member_const(h, self, member) ==
    LET found == find_member(h, self, member)
    IN  IF found.err # "none" THEN [h |-> h, ret |-> found]
        ELSE IF found.node # NULL THEN [h |-> h, ret |-> found]
        ELSE [h |-> h, ret |-> Throw(MemberNotFound)]

\* get_member(instance, member) const.
get_member_runtime_const(h, self, T, M, member_offset) ==
    LET found == find_member_runtime(h, self, T, M, member_offset)
    IN  IF found.err # "none" THEN [h |-> h, ret |-> found]
        ELSE IF found.node # NULL THEN [h |-> h, ret |-> found]
        ELSE [h |-> h, ret |-> Throw(MemberNotFound)]

(* --------------------------- pop, pop_to_root -------------------------- *)

\* parent->pop(--count) with parent == nullptr is a call through a null
\* pointer: undefined behaviour, reported here as the outcome NullDeref.
NullDeref == "undefined: call through null parent"

\* Variants of pop with a slip in them, used to test the properties below.
\* (1) the count is not consulted: pop(count) is pop().
pop_ignores_count(h, self, count) ==
    IF ~has_parent(h, self) /\ count > 0 THEN Throw(NoParent)
    ELSE Ok(h[self].parent)

\* (2) an ascent beyond the top stops at the top instead of failing.
RECURSIVE pop_stops_at_top(_, _, _)
pop_stops_at_top(h, self, count) ==
    IF ~has_parent(h, self) \/ count = 0 THEN Ok(self)
    ELSE pop_stops_at_top(h, h[self].parent, count - 1)

RECURSIVE pop(_, _, _)
pop(h, self, count) ==
    IF ~has_parent(h, self) /\ count > 0 THEN Throw(NoParent)
    ELSE IF count = 1 THEN Ok(h[self].parent)
    ELSE IF h[self].parent = NULL THEN Throw(NullDeref)
    ELSE pop(h, h[self].parent, count - 1)

RECURSIVE pop_to_root(_, _)
pop_to_root(h, self) ==
    IF is_root(h, self) THEN Ok(self) ELSE pop_to_root(h, h[self].parent)

(* ------------------------ type_settings<int> --------------------------- *)

\* type_settings& min(const int& v) { _min = v; return *this; }
min(h, self, v) == [h |-> [h EXCEPT ![self]._min = v], ret |-> Ok(self)]

\* type_settings& max(const int& v) { _max = v; return *this; }
max(h, self, v) == [h |-> [h EXCEPT ![self]._max = v], ret |-> Ok(self)]

(* ------------------- src/scope.hpp, the first snapshot ----------------- *)

scope_hpp_push(h, self, T) ==
    LET key == T
        it == h[self].children[key]
        child == fresh(self, type_digit(key))
        obj == [default_object(T) EXCEPT !.parent = self]
        h1 == store(h, child, obj)
        h2 == [h1 EXCEPT ![self].children = emplace(@, key, child)]
    IN  IF it # NULL
        THEN IF dynamic_cast(h, it, T) = NULL
             THEN [h |-> h, ret |-> Throw(ChildMismatch)]
             ELSE [h |-> h, ret |-> Ok(it)]
        ELSE [h |-> h2, ret |-> Ok(child)]

scope_hpp_pop(h, self) ==
    IF h[self].parent = NULL THEN Throw(NoParent) ELSE Ok(h[self].parent)

\* A variant of scope_hpp_get with a slip in it, used to test the property
\* of the switch below: SVH_RECURSIVE_SEARCH is not consulted.
RECURSIVE scope_hpp_get_always_recurses(_, _, _, _, _)
scope_hpp_get_always_recurses(h, self, T, auto_insert, recursive_search) ==
    LET key == T
        it == h[self].children[key]
    IN  IF it # NULL
        THEN IF dynamic_cast(h, it, T) = NULL
             THEN [h |-> h, ret |-> Throw(ChildMismatch)]
             ELSE [h |-> h, ret |-> Ok(it)]
        ELSE IF is_root(h, self) /\ auto_insert
        THEN scope_hpp_push(h, self, T)
        ELSE IF has_parent(h, self)
        THEN scope_hpp_get_always_recurses(h, h[self].parent, T, auto_insert,
                                           recursive_search)
        ELSE [h |-> h, ret |-> Throw(TypeNotFound)]

RECURSIVE scope_hpp_get(_, _, _, _, _)
scope_hpp_get(h, self, T, auto_insert, recursive_search) ==
    LET key == T
        it == h[self].children[key]
    IN  IF it # NULL
        THEN IF dynamic_cast(h, it, T) = NULL
             THEN [h |-> h, ret |-> Throw(ChildMismatch)]
             ELSE [h |-> h, ret |-> Ok(it)]
        ELSE IF is_root(h, self) /\ auto_insert
        THEN scope_hpp_push(h, self, T)
        ELSE IF has_parent(h, self) /\ recursive_search
        THEN scope_hpp_get(h, h[self].parent, T, auto_insert, recursive_search)
        ELSE [h |-> h, ret |-> Throw(TypeNotFound)]
(* ------------------------------ actions -------------------------------- *)

\* A call ran on the heap and produced r = [h, ret]: the heap becomes r.h.
\* The outcome r.ret goes to the caller, who is not part of the state.
Commit(r) ==
    /\ Cardinality(DOMAIN r.h) <= MaxNodes
    /\ heap' = r.h
    /\ UNCHANGED <<SVH_AUTO_INSERT, SVH_RECURSIVE_SEARCH>>

Push ==
    \E self \in nodes, T \in CvTypes : Commit(push(heap, self, <<T>>))

PushDefault ==
    \E self \in nodes, T \in Types : Commit(push_default(heap, self, T))

PushMember ==
    \E self \in nodes, m \in MemberIds : Commit(push_member(heap, self, m))

Get ==
    \E self \in nodes, T \in CvTypes :
        Commit(get(heap, self, <<T>>, SVH_AUTO_INSERT))

GetMember ==
    \E self \in nodes, m \in MemberIds :
        Commit(get_member(heap, self, m, SVH_AUTO_INSERT))

\* get_member(instance, member) with a TestStruct instance and an int.
GetMemberRuntime ==
    \E self \in nodes, off \in RuntimeOffsets :
        Commit(get_member_runtime(heap, self, "TestStruct", "int", off,
                                  SVH_AUTO_INSERT))

Find ==
    \E self \in nodes, T \in Types :
        Commit([h |-> heap, ret |-> find(heap, self, T, InvalidMember)])

FindMember ==
    \E self \in nodes, m \in MemberIds :
        Commit([h |-> heap, ret |-> find_member(heap, self, m)])

FindMemberRuntime ==
    \E self \in nodes, off \in RuntimeOffsets :
        Commit([h |-> heap,
                ret |-> find_member_runtime(heap, self, "TestStruct", "int", off)])

Pop ==
    \E self \in nodes, count \in 0..MaxPop :
        Commit([h |-> heap, ret |-> pop(heap, self, count)])

PopToRoot ==
    \E self \in nodes : Commit([h |-> heap, ret |-> pop_to_root(heap, self)])

\* The setters exist on type_settings<int> only.
Min ==
    \E self \in nodes, v \in MinVals :
        /\ heap[self].type = "int"
        /\ Commit(min(heap, self, v))

Max ==
    \E self \in nodes, v \in MaxVals :
        /\ heap[self].type = "int"
        /\ Commit(max(heap, self, v))

\* The template argument lists of the variadic calls: two types or more.
TypeLists == UNION {[1..k -> Types] : k \in 2..MaxTypeArgs}

PushVariadic ==
    \E self \in nodes, Ts \in TypeLists : Commit(push(heap, self, Ts))

GetVariadic ==
    \E self \in nodes, Ts \in TypeLists :
        Commit(get(heap, self, Ts, SVH_AUTO_INSERT))

\* svh::scope<type_settings> root;  -- one default-constructed root object.
InitHeap ==
    heap = [n \in {Root} |-> default_object("scope")]

Init ==
    /\ InitHeap
    /\ SVH_AUTO_INSERT = TRUE
    /\ SVH_RECURSIVE_SEARCH = TRUE

Next ==
    \/ Push \/ PushVariadic \/ PushDefault \/ PushMember
    \/ Get \/ GetVariadic \/ GetMember \/ GetMemberRuntime
    \/ Find \/ FindMember \/ FindMemberRuntime
    \/ Pop \/ PopToRoot
    \/ Min \/ Max

Spec == Init /\ [][Next]_vars

\* The same program compiled with -DSVH_AUTO_INSERT=false.
InitNoAutoInsert ==
    /\ InitHeap
    /\ SVH_AUTO_INSERT = FALSE
    /\ SVH_RECURSIVE_SEARCH = TRUE

SpecNoAutoInsert == InitNoAutoInsert /\ [][Next]_vars

\* The program of the README's configuration example: a root scope is
\* configured with push, the setters, pop and get, copied once, and both
\* scope objects are configured further.
Copy ==
    /\ CopyRoot \notin nodes
    /\ Commit(scope_copy(heap, Root, CopyRoot))

NextCopy ==
    \/ Copy
    \/ Push \/ Get \/ Pop
    \/ Min \/ Max

SpecCopy == Init /\ [][NextCopy]_vars

\* The program of test func_param: a scope is configured and handed to
\* functions that take it by reference to const and read it.
GetConst ==
    \E self \in nodes, T \in CvTypes : Commit(get_const(heap, self, <<T>>))

GetVariadicConst ==
    \E self \in nodes, Ts \in TypeLists : Commit(get_const(heap, self, Ts))

GetMemberConst ==
    \E self \in nodes, m \in MemberIds : Commit(get_member_const(heap, self, m))

GetMemberRuntimeConst ==
    \E self \in nodes, off \in RuntimeOffsets :
        Commit(get_member_runtime_const(heap, self, "TestStruct", "int", off))

NextConst ==
    \/ Push \/ PushMember
    \/ Min \/ Max
    \/ GetConst \/ GetVariadicConst \/ GetMemberConst \/ GetMemberRuntimeConst

SpecConst == Init /\ [][NextConst]_vars

(* -------------- the program built on src/scope.hpp (first) ------------- *)

HppPush ==
    \E self \in nodes, T \in Types : Commit(scope_hpp_push(heap, self, T))

HppPop ==
    \E self \in nodes : Commit([h |-> heap, ret |-> scope_hpp_pop(heap, self)])

HppGet ==
    \E self \in nodes, T \in Types :
        Commit(scope_hpp_get(heap, self, T, SVH_AUTO_INSERT, SVH_RECURSIVE_SEARCH))

InitHpp ==
    /\ InitHeap
    /\ SVH_AUTO_INSERT \in BOOLEAN
    /\ SVH_RECURSIVE_SEARCH \in BOOLEAN

NextHpp == HppPush \/ HppPop \/ HppGet \/ Min \/ Max

SpecHpp == InitHpp /\ [][NextHpp]_vars
(* ======================================================================= *)
(*                        properties of the scope tree                     *)
(* ======================================================================= *)

\* The payload fields of the object at x.
Fields(h, x) == <<h[x]._min, h[x]._max>>

DefaultFields(T) == <<default_min(T), default_max(T)>>

\* Walking x, its parent, its parent's parent, ...: the first node that holds
\* a type-keyed child for T (NULL when there is none).
RECURSIVE NearestHolder(_, _, _)
NearestHolder(h, x, T) ==
    IF x = NULL THEN NULL
    ELSE IF h[x].children[T] # NULL THEN x
    ELSE NearestHolder(h, h[x].parent, T)

\* No node on the walk from x up to, and not including, `stop` carries a
\* member key (stop = NULL: up to and including the root of the walk).
RECURSIVE MemberKeyFree(_, _, _)
MemberKeyFree(h, x, stop) ==
    IF x = NULL \/ x = stop THEN TRUE
    ELSE ~is_valid(h[x].active_member) /\ MemberKeyFree(h, h[x].parent, stop)

\* push<T>() on n attaches a new child to n whose fields are those of the
\* T child of the nearest holder above n.
PushCopiesNearest(h, n, T) ==
    LET holder == NearestHolder(h, h[n].parent, T)
        src == h[holder].children[T]
        r == _push(h, n, T)
        c == r.ret.node
    IN  /\ r.ret.err = "none"
        /\ c \notin DOMAIN h
        /\ DOMAIN r.h = DOMAIN h \cup {c}
        /\ r.h[n].children[T] = c
        /\ r.h[c].parent = n
        /\ r.h[c].type = T
        /\ Fields(r.h, c) = Fields(h, src)

\* C1 (as claimed): push<T>() on a node with no child for T, when a node on
\* its ancestor chain holds a child for T, attaches a new child whose fields
\* equal those of the nearest such holder's T child.
C1_PushInheritsFromNearestHolder ==
    \A n \in nodes, T \in Types :
        (heap[n].children[T] = NULL /\ NearestHolder(heap, heap[n].parent, T) # NULL)
            => PushCopiesNearest(heap, n, T)

\* C1 (amended): the same, for a node that carries no member key and whose
\* chain up to the nearest holder passes no node that carries one.
C1_PushInheritsFromNearestHolder_NoMemberKey ==
    \A n \in nodes, T \in Types :
        (/\ heap[n].children[T] = NULL
         /\ NearestHolder(heap, heap[n].parent, T) # NULL
         /\ MemberKeyFree(heap, n, NearestHolder(heap, heap[n].parent, T)))
            => PushCopiesNearest(heap, n, T)

\* A heap in which push<int>() takes the copy branch of C1 with two holders
\* above the node, the nearer one's int child differing from the farther
\* one's and from a default int node, and the new child equal to the nearer.
C1_Witness ==
    \E n \in nodes :
        LET near == NearestHolder(heap, heap[n].parent, "int")
            far == NearestHolder(heap, heap[near].parent, "int")
        IN  /\ heap[n].children["int"] = NULL
            /\ near # NULL
            /\ MemberKeyFree(heap, n, near)
            /\ far # NULL
            /\ Fields(heap, heap[near].children["int"])
                  # Fields(heap, heap[far].children["int"])
            /\ Fields(heap, heap[near].children["int"]) # DefaultFields("int")
            /\ PushCopiesNearest(heap, n, "int")
            /\ Fields(_push(heap, n, "int").h, _push(heap, n, "int").ret.node)
                  # Fields(heap, heap[far].children["int"])

\* C2: inheritance is by copy.  When push<T>() creates a child from a node
\* found up the chain, the child is a new object with the fields of that
\* node; the push changes the fields of no object that existed before it; a
\* setter applied to the child afterwards leaves every such object (the node
\* copied from among them) as it was, and a setter applied to the node
\* copied from leaves the child as it was.
C2_InheritanceIsByCopy ==
    \A n \in nodes :
        LET T == "int"
            found == find(heap, n, T, InvalidMember)
            r == _push(heap, n, T)
            c == r.ret.node
        IN  (/\ heap[n].children[T] = NULL
             /\ has_parent(heap, n)
             /\ found.err = "none" /\ found.node # NULL)
            => /\ r.ret.err = "none"
               /\ c \notin nodes
               /\ Fields(r.h, c) = Fields(heap, found.node)
               /\ \A s \in nodes : Fields(r.h, s) = Fields(heap, s)
               /\ \A v \in MinVals : \A s \in nodes :
                      /\ min(r.h, c, v).h[s] = r.h[s]
                      /\ min(r.h, found.node, v).h[c] = r.h[c]
               /\ \A v \in MaxVals : \A s \in nodes :
                      /\ max(r.h, c, v).h[s] = r.h[s]
                      /\ max(r.h, found.node, v).h[c] = r.h[c]

\* A heap in which push<int>() copies a node whose fields were set, so that
\* a setter on the copy makes the two differ.
C2_Witness ==
    \E n \in nodes :
        LET found == find(heap, n, "int", InvalidMember)
            r == _push(heap, n, "int")
        IN  /\ heap[n].children["int"] = NULL
            /\ has_parent(heap, n)
            /\ found.err = "none" /\ found.node # NULL
            /\ Fields(heap, found.node) = <<-50, INT_MAX>>
            /\ r.ret.node \notin nodes
            /\ Fields(max(r.h, r.ret.node, 50).h, r.ret.node) = <<-50, 50>>
            /\ Fields(max(r.h, r.ret.node, 50).h, found.node) = <<-50, INT_MAX>>

\* C3: push<T>() on a node that holds a child for T returns that child and
\* changes nothing, so a second push<T>() returns the node the first one
\* returned and leaves the heap the first one left.
C3_PushIsIdempotent ==
    \A n \in nodes, T \in Types :
        LET r1 == _push(heap, n, T)
            r2 == _push(r1.h, n, T)
        IN  /\ heap[n].children[T] # NULL
                => r1 = [h |-> heap, ret |-> Ok(heap[n].children[T])]
            /\ r1.ret.err = "none"
                => /\ r2.ret = r1.ret
                   /\ r2.h = r1.h

\* A heap in which a node holds an int child with fields set and children of
\* its own, and push<int>() hands back that child.
C3_Witness ==
    \E n \in nodes :
        LET c == heap[n].children["int"]
        IN  /\ c # NULL
            /\ Fields(heap, c) # DefaultFields("int")
            /\ heap[c].children # NoChildren
            /\ _push(heap, n, "int").ret = Ok(c)
            /\ _push(heap, n, "int").h = heap

\* The objects held under x: its children, their children, and so on.
Under(h, x) == owned(h, {}, {x}) \ {x}

\* C4 (as claimed): push_default<T>() on a node that holds a child for T
\* returns that child with its fields reset to T's defaults and its children
\* kept: every object held under the child before the call is held under it
\* after the call.
C4_PushDefaultKeepsChildren ==
    \A n \in nodes, T \in Types :
        LET c == heap[n].children[T]
            r == push_default(heap, n, T)
        IN  c # NULL
            => /\ r.ret = Ok(c)
               /\ Fields(r.h, c) = DefaultFields(T)
               /\ Under(heap, c) \subseteq DOMAIN r.h
               /\ Under(heap, c) \subseteq Under(r.h, c)

\* C5 (as claimed): a node's parent never changes after creation.  After any
\* sequence of operations, pop() on a node that n holds as a child (a node
\* that n.push<T>(), n.push_default<T>() or n.push_member<m>() handed out
\* before) returns n, and so does pop() on the node that any of these three
\* hands out now.
C5_ParentNeverChanges ==
    /\ \A n \in nodes, T \in Types :
        /\ heap[n].children[T] # NULL => pop(heap, heap[n].children[T], 1) = Ok(n)
        /\ LET r == _push(heap, n, T)
           IN  r.ret.err = "none" => pop(r.h, r.ret.node, 1) = Ok(n)
        /\ LET r == push_default(heap, n, T)
           IN  r.ret.err = "none" => pop(r.h, r.ret.node, 1) = Ok(n)
    /\ \A n \in nodes, m \in MemberIds :
        /\ heap[n].member_children[m] # NULL
              => pop(heap, heap[n].member_children[m], 1) = Ok(n)
        /\ LET r == push_member(heap, n, m)
           IN  r.ret.err = "none" => pop(r.h, r.ret.node, 1) = Ok(n)

\* get<T>() on n returns the T child of the nearest holder above n, that
\* very object, and leaves the heap as it is.
GetReturnsNearest(h, n, T, auto_insert) ==
    LET holder == NearestHolder(h, h[n].parent, T)
    IN  _get(h, n, T, auto_insert) = [h |-> h, ret |-> Ok(h[holder].children[T])]

\* C6 (as claimed): get<T>() on a node with no child for T, when a node on
\* its ancestor chain holds one, returns the nearest holder's T node itself
\* and creates no node.
C6_GetReturnsNearestHolderNode ==
    \A n \in nodes, T \in Types :
        (heap[n].children[T] = NULL /\ NearestHolder(heap, heap[n].parent, T) # NULL)
            => GetReturnsNearest(heap, n, T, SVH_AUTO_INSERT)

\* C6 (amended): the same, for a node that carries no member key and whose
\* chain up to the nearest holder passes no node that carries one.
C6_GetReturnsNearestHolderNode_NoMemberKey ==
    \A n \in nodes, T \in Types :
        (/\ heap[n].children[T] = NULL
         /\ NearestHolder(heap, heap[n].parent, T) # NULL
         /\ MemberKeyFree(heap, n, NearestHolder(heap, heap[n].parent, T)))
            => GetReturnsNearest(heap, n, T, SVH_AUTO_INSERT)

\* A heap in which get<int>() climbs past a nearer node without int child to
\* a holder whose int child has fields set, while a farther holder has a
\* different one, and hands back the nearer holder's node with the heap kept.
C6_Witness ==
    \E n \in nodes :
        LET near == NearestHolder(heap, heap[n].parent, "int")
            far == NearestHolder(heap, heap[near].parent, "int")
        IN  /\ heap[n].children["int"] = NULL
            /\ near # NULL /\ far # NULL
            /\ MemberKeyFree(heap, n, near)
            /\ Fields(heap, heap[near].children["int"]) # DefaultFields("int")
            /\ heap[near].children["int"] # heap[far].children["int"]
            /\ GetReturnsNearest(heap, n, "int", SVH_AUTO_INSERT)

\* get<T>() on n attaches a new, default-built child for T to n and returns
\* it; no other object changes.
GetInsertsDefaultHere(h, n, T, auto_insert) ==
    LET r == _get(h, n, T, auto_insert)
        c == r.ret.node
    IN  /\ r.ret.err = "none"
        /\ c \notin DOMAIN h
        /\ DOMAIN r.h = DOMAIN h \cup {c}
        /\ r.h[c] = [default_object(T) EXCEPT !.parent = n]
        /\ r.h[n] = [h[n] EXCEPT !.children[T] = c]
        /\ \A s \in DOMAIN h \ {n} : r.h[s] = h[s]

C8_AutoInsertOnlyAtRoot ==
    \A n \in nodes, T \in Types :
        (SVH_AUTO_INSERT /\ has_parent(heap, n) /\ NearestHolder(heap, n, T) = NULL)
            => _get(heap, n, T, SVH_AUTO_INSERT) = [h |-> heap, ret |-> Throw(TypeNotFound)]

\* Nothing on the path from x to the root serves member m: no member-keyed
\* child for m, no child for its struct type, no child for its member type.
RECURSIVE MemberHeldNowhere(_, _, _)
MemberHeldNowhere(h, x, m) ==
    IF x = NULL THEN TRUE
    ELSE /\ h[x].member_children[m] = NULL
         /\ h[x].children[m.struct_type] = NULL
         /\ h[x].children[m.member_type] = NULL
         /\ MemberHeldNowhere(h, h[x].parent, m)

\* get_member on n, in both forms, fails with 'Member settings not found'
\* and leaves the heap as it is.
GetMemberFails(h, n, m, auto_insert) ==
    /\ get_member(h, n, m, auto_insert) = [h |-> h, ret |-> Throw(MemberNotFound)]
    /\ get_member_runtime(h, n, m.struct_type, m.member_type, m.offset, auto_insert)
          = [h |-> h, ret |-> Throw(MemberNotFound)]

\* C9 (as claimed): with auto-insert disabled, get<T>() where no node on the
\* path to the root holds a child for T fails with 'Type not found', and
\* get_member where nothing on the path serves the member fails with 'Member
\* settings not found'; no node is created and the heap is unchanged.
C9_NoAutoInsertGetFails ==
    ~SVH_AUTO_INSERT =>
        /\ \A n \in nodes, T \in Types :
              NearestHolder(heap, n, T) = NULL
                  => _get(heap, n, T, SVH_AUTO_INSERT)
                        = [h |-> heap, ret |-> Throw(TypeNotFound)]
        /\ \A n \in nodes, m \in MemberIds :
              MemberHeldNowhere(heap, n, m)
                  => GetMemberFails(heap, n, m, SVH_AUTO_INSERT)

\* C9 (amended): the same, get<T>() being taken on a path to the root on
\* which no node carries a member key.
C9_NoAutoInsertGetFails_NoMemberKey ==
    ~SVH_AUTO_INSERT =>
        /\ \A n \in nodes, T \in Types :
              (NearestHolder(heap, n, T) = NULL /\ MemberKeyFree(heap, n, NULL))
                  => _get(heap, n, T, SVH_AUTO_INSERT)
                        = [h |-> heap, ret |-> Throw(TypeNotFound)]
        /\ \A n \in nodes, m \in MemberIds :
              MemberHeldNowhere(heap, n, m)
                  => GetMemberFails(heap, n, m, SVH_AUTO_INSERT)

\* A heap, auto-insert disabled, in which TestStruct::b is keyed at the root
\* and nothing else is held: get<int>() on the root and get_member<a>() on
\* the node of b below it fail and change nothing.
C9_Witness ==
    /\ ~SVH_AUTO_INSERT
    /\ heap[Root].member_children[Member_b] # NULL
    /\ NearestHolder(heap, Root, "int") = NULL
    /\ _get(heap, Root, "int", SVH_AUTO_INSERT) = [h |-> heap, ret |-> Throw(TypeNotFound)]
    /\ \E n \in nodes :
        /\ has_parent(heap, n)
        /\ MemberHeldNowhere(heap, n, Member_a)
        /\ GetMemberFails(heap, n, Member_a, SVH_AUTO_INSERT)

\* C10: with SVH_RECURSIVE_SEARCH disabled the lookup of src/scope.hpp is
\* confined to the current node: get<T>() on a node with no child for T
\* whose ancestor holds one fails with 'Type not found' and leaves the heap
\* as it is, instead of returning the ancestor's node.
C10_NoRecursiveSearchConfinesLookup ==
    \A n \in nodes, T \in Types :
        (/\ ~SVH_RECURSIVE_SEARCH
         /\ heap[n].children[T] = NULL
         /\ NearestHolder(heap, heap[n].parent, T) # NULL)
            => scope_hpp_get(heap, n, T, SVH_AUTO_INSERT, SVH_RECURSIVE_SEARCH)
                  = [h |-> heap, ret |-> Throw(TypeNotFound)]

\* A heap of src/scope.hpp, the switch disabled, in which the root holds an
\* int child with fields set and get<int>() on a node below the root fails.
C10_Witness ==
    \E n \in nodes :
        /\ ~SVH_RECURSIVE_SEARCH
        /\ has_parent(heap, n)
        /\ heap[n].children["int"] = NULL
        /\ heap[Root].children["int"] # NULL
        /\ Fields(heap, heap[Root].children["int"]) # DefaultFields("int")
        /\ scope_hpp_get(heap, n, "int", SVH_AUTO_INSERT, SVH_RECURSIVE_SEARCH)
              = [h |-> heap, ret |-> Throw(TypeNotFound)]

\* The two type-mismatch errors.
IsMismatch(err) == err \in {ChildMismatch, MemberMismatch}

\* C11 (as claimed): on a heap built by the public operations, find<T>(),
\* push<T>() and get<T>() on any node, type-keyed or member-keyed, for any
\* type T never raise a type-mismatch error; find returns a node or nothing,
\* never an error.
C11_NoTypeMismatch ==
    \A n \in nodes, T \in Types :
        /\ find(heap, n, T, InvalidMember).err = "none"
        /\ ~IsMismatch(_push(heap, n, T).ret.err)
        /\ ~IsMismatch(_get(heap, n, T, SVH_AUTO_INSERT).ret.err)

\* C12 (as claimed): pop_to_root() on any node of the tree returns the root
\* of the tree, the object without parent that holds the node through the
\* child maps, after any sequence of operations; on the root it returns the
\* root.  (Every live object is held from Root: release keeps no other.)
C12_PopToRootReturnsRoot ==
    \A n \in nodes : pop_to_root(heap, n) = Ok(Root)

\* The number of parent links from x up to an object without parent.
RECURSIVE Depth(_, _)
Depth(h, x) == IF h[x].parent = NULL THEN 0 ELSE 1 + Depth(h, h[x].parent)

\* The outcome of k successive pop() calls starting on x.
RECURSIVE PopTimes(_, _, _)
PopTimes(h, x, k) ==
    IF k = 0 THEN Ok(x)
    ELSE LET r == pop(h, x, 1)
         IN  IF r.err # "none" THEN r ELSE PopTimes(h, r.node, k - 1)

\* The object k parent links above x.
RECURSIVE Ancestor(_, _, _)
Ancestor(h, x, k) == IF k = 0 THEN x ELSE Ancestor(h, h[x].parent, k - 1)

\* C13: for a node at depth d and a count with 1 <= count <= d, pop(count)
\* returns what count successive pop() calls return: the ancestor count
\* levels up.
C13_PopCountIsRepeatedPop ==
    \A n \in nodes, count \in 1..MaxNodes :
        count <= Depth(heap, n)
            => /\ pop(heap, n, count) = PopTimes(heap, n, count)
               /\ pop(heap, n, count) = Ok(Ancestor(heap, n, count))

\* A heap with a node at depth two or more: pop(2) on it returns its
\* grandparent, which pop() does not.
C13_Witness ==
    \E n \in nodes :
        /\ Depth(heap, n) >= 2
        /\ pop(heap, n, 2) = Ok(heap[heap[n].parent].parent)
        /\ pop(heap, n, 2) = PopTimes(heap, n, 2)
        /\ pop(heap, n, 2) # pop(heap, n, 1)

\* C14: pop(count) on a node at depth d with count > d, pop() on the root
\* included, fails with 'No parent to pop to'.  pop is a const member
\* function that writes nothing: the heap is as before.
C14_PopBeyondRootFails ==
    \A n \in nodes, count \in 1..(MaxNodes + 1) :
        count > Depth(heap, n) => pop(heap, n, count) = Throw(NoParent)

\* A heap with a node at depth one: pop(2) on it fails though pop() works,
\* and pop() on the root fails.
C14_Witness ==
    \E n \in nodes :
        /\ Depth(heap, n) = 1
        /\ pop(heap, n, 1) = Ok(Root)
        /\ pop(heap, n, 2) = Throw(NoParent)
        /\ pop(heap, Root, 1) = Throw(NoParent)

\* The chained calls push<T1>().push<T2>()...push<Tn>() starting on x, taken
\* one after the other from position i of the list.
RECURSIVE PushChain(_, _, _, _)
PushChain(h, x, Ts, i) ==
    LET r == _push(h, x, Ts[i])
    IN  IF r.ret.err # "none" \/ i = Len(Ts) THEN r
        ELSE PushChain(r.h, r.ret.node, Ts, i + 1)

\* C15: variadic push<T1,...,Tn>() on a node leaves the heap the chained
\* calls push<T1>().push<T2>()...push<Tn>() leave and returns the node they
\* return; when it returns, that node has the type Tn.
C15_VariadicPushIsChainedPush ==
    \A n \in nodes, Ts \in TypeLists :
        LET r == push(heap, n, Ts)
        IN  /\ r = PushChain(heap, n, Ts, 1)
            /\ r.ret.err = "none" => r.h[r.ret.node].type = Ts[Len(Ts)]

\* A heap in which push<TestStruct, int>() on a node below the root builds
\* both levels, the int level as a copy of an int node with fields set that
\* find reaches from the new TestStruct node.
C15_Witness ==
    \E n \in nodes :
        LET Ts == <<"TestStruct", "int">>
            r == push(heap, n, Ts)
        IN  /\ has_parent(heap, n)
            /\ heap[n].children["TestStruct"] = NULL
            /\ r.ret.err = "none"
            /\ Cardinality(DOMAIN r.h) = Cardinality(nodes) + 2
            /\ r.h[r.ret.node].parent = r.h[n].children["TestStruct"]
            /\ Fields(r.h, r.ret.node) # DefaultFields("int")
            /\ r = PushChain(heap, n, Ts, 1)

\* The chained calls get<T1>().get<T2>()...get<Tn>() starting on x.
RECURSIVE GetChain(_, _, _, _, _)
GetChain(h, x, Ts, i, auto_insert) ==
    LET r == _get(h, x, Ts[i], auto_insert)
    IN  IF r.ret.err # "none" \/ i = Len(Ts) THEN r
        ELSE GetChain(r.h, r.ret.node, Ts, i + 1, auto_insert)

\* C16: variadic get<T1,...,Tn>() on a node returns the node, and leaves the
\* heap, that the chained calls get<T1>().get<T2>()...get<Tn>() return and
\* leave, every step searching the ancestors and inserting on its own.
C16_VariadicGetIsChainedGet ==
    \A n \in nodes, Ts \in TypeLists :
        LET r == get(heap, n, Ts, SVH_AUTO_INSERT)
        IN  /\ r = GetChain(heap, n, Ts, 1, SVH_AUTO_INSERT)
            /\ r.ret.err = "none" => r.h[r.ret.node].type = Ts[Len(Ts)]

\* A heap in which get<TestStruct, int>() on a node resolves TestStruct to
\* a node an ancestor holds and inserts the missing int under that node.
C16_Witness ==
    \E n \in nodes :
        LET Ts == <<"TestStruct", "int">>
            first == _get(heap, n, "TestStruct", SVH_AUTO_INSERT)
            r == get(heap, n, Ts, SVH_AUTO_INSERT)
        IN  /\ heap[n].children["TestStruct"] = NULL
            /\ first.ret.err = "none" /\ first.ret.node \in nodes
            /\ heap[first.ret.node].parent # n
            /\ r.ret.err = "none"
            /\ r.ret.node \notin nodes
            /\ r.h[r.ret.node].parent = first.ret.node
            /\ r = GetChain(heap, n, Ts, 1, SVH_AUTO_INSERT)

\* The node and the fields a call returned; the error when it threw.
Resolved(r) ==
    IF r.ret.err # "none" THEN <<r.ret.err>>
    ELSE <<r.ret.node, Fields(r.h, r.ret.node)>>

\* What the two forms of get_member resolve for member m on node x.
ResolvedMember(h, x, m, auto_insert) ==
    <<Resolved(get_member(h, x, m, auto_insert)),
      Resolved(get_member_runtime(h, x, m.struct_type, m.member_type, m.offset,
                                  auto_insert))>>

\* C17 (as claimed): member nodes pushed under different member keys are
\* different nodes.  For the int fields a and b of TestStruct: the nodes that
\* push_member<a>() and push_member<b>() return on one node differ, each is
\* what get_member resolves for its own field there, and a setter applied
\* to the node of one field changes, on no node of the tree, what get_member
\* resolves for the other field.
C17_MemberNodesAreDistinct ==
    \A n \in nodes, ma \in MemberIds : \A mb \in MemberIds \ {ma} :
        LET ra == push_member(heap, n, ma)
            rb == push_member(ra.h, n, mb)
            A == ra.ret.node
            B == rb.ret.node
        IN  (ra.ret.err = "none" /\ rb.ret.err = "none")
            => /\ A # B
               /\ get_member(rb.h, n, ma, SVH_AUTO_INSERT) = [h |-> rb.h, ret |-> Ok(A)]
               /\ get_member(rb.h, n, mb, SVH_AUTO_INSERT) = [h |-> rb.h, ret |-> Ok(B)]
               /\ \A v \in MinVals, x \in DOMAIN rb.h :
                     /\ ResolvedMember(min(rb.h, A, v).h, x, mb, SVH_AUTO_INSERT)
                           = ResolvedMember(rb.h, x, mb, SVH_AUTO_INSERT)
                     /\ ResolvedMember(min(rb.h, B, v).h, x, ma, SVH_AUTO_INSERT)
                           = ResolvedMember(rb.h, x, ma, SVH_AUTO_INSERT)

\* C18 (as claimed): get_member<&S::f>() and get_member(instance,
\* instance.f) on the same node of the same heap resolve to the same stored
\* node, in every reachable heap, also where the field has no member-key
\* node and the lookup falls back or inserts.
C18_MemberFormsAgree ==
    \A n \in nodes, m \in MemberIds :
        Resolved(get_member(heap, n, m, SVH_AUTO_INSERT))
            = Resolved(get_member_runtime(heap, n, m.struct_type, m.member_type,
                                          m.offset, SVH_AUTO_INSERT))

\* C19 (as claimed): when the TestStruct node S holds a plain int child and
\* no node of the chain holds a member-key node for field f, member lookup
\* for f, in either form, resolves to that plain child, both on S and on the
\* node P that holds S as its TestStruct child, for a as well as for b.
C19_StructIntChildServesMembers ==
    \A P \in nodes, m \in MemberIds :
        LET S == heap[P].children[m.struct_type]
            plain == heap[S].children[m.member_type]
        IN  (/\ S # NULL
             /\ plain # NULL
             /\ \A x \in nodes : heap[x].member_children[m] = NULL)
            => /\ find_member(heap, S, m) = Ok(plain)
               /\ find_member_runtime(heap, S, m.struct_type, m.member_type, m.offset)
                     = Ok(plain)
               /\ find_member(heap, P, m) = Ok(plain)
               /\ find_member_runtime(heap, P, m.struct_type, m.member_type, m.offset)
                     = Ok(plain)

\* C20: a member-key node at the node of the lookup takes precedence.
\* find_member and get_member for field f, in either form, on a node whose
\* member map holds f's key return that member node and change nothing,
\* whatever plain child for f's type or struct-typed child the node holds.
C20_MemberNodeTakesPrecedence ==
    \A n \in nodes, m \in MemberIds :
        LET it == heap[n].member_children[m]
        IN  it # NULL
            => /\ find_member(heap, n, m) = Ok(it)
               /\ find_member_runtime(heap, n, m.struct_type, m.member_type, m.offset)
                     = Ok(it)
               /\ get_member(heap, n, m, SVH_AUTO_INSERT) = [h |-> heap, ret |-> Ok(it)]
               /\ get_member_runtime(heap, n, m.struct_type, m.member_type, m.offset,
                                     SVH_AUTO_INSERT) = [h |-> heap, ret |-> Ok(it)]

\* A heap in which a node holds the member node of a, a plain int child with
\* other fields and a TestStruct child, and lookup of a returns the member
\* node.
C20_Witness ==
    \E n \in nodes :
        LET it == heap[n].member_children[Member_a]
        IN  /\ it # NULL
            /\ heap[n].children["int"] # NULL
            /\ heap[n].children["TestStruct"] # NULL
            /\ Fields(heap, it) # Fields(heap, heap[n].children["int"])
            /\ find_member(heap, n, Member_a) = Ok(it)
            /\ get_member(heap, n, Member_a, SVH_AUTO_INSERT).ret = Ok(it)

\* C21: the runtime member API, handed a field reference whose address lies
\* outside [instance address, instance address + sizeof(T)), fails with
\* 'Member is not within instance bounds'; get_member(instance, field)
\* creates no node, auto-insert enabled or not, and leaves the heap as it is.
C21_OutOfBoundsMemberFails ==
    \A n \in nodes, off \in RuntimeOffsets :
        (off < 0 \/ off >= SizeofTestStruct)
            => /\ find_member_runtime(heap, n, "TestStruct", "int", off)
                     = Throw(OutOfBounds)
               /\ \A auto_insert \in BOOLEAN :
                     get_member_runtime(heap, n, "TestStruct", "int", off, auto_insert)
                        = [h |-> heap, ret |-> Throw(OutOfBounds)]

\* A heap, auto-insert enabled, in which the runtime get_member on a node
\* below the root inserts a node for the int at offset 4 and fails for the
\* ints at offset 8 and at offset -4.
C21_Witness ==
    \E n \in nodes :
        /\ has_parent(heap, n)
        /\ SVH_AUTO_INSERT
        /\ get_member_runtime(heap, n, "TestStruct", "int", 4, SVH_AUTO_INSERT).ret.node
              \notin nodes \cup {NULL}
        /\ get_member_runtime(heap, n, "TestStruct", "int", 8, SVH_AUTO_INSERT)
              = [h |-> heap, ret |-> Throw(OutOfBounds)]
        /\ get_member_runtime(heap, n, "TestStruct", "int", -4, SVH_AUTO_INSERT)
              = [h |-> heap, ret |-> Throw(OutOfBounds)]

\* push_member on n attaches a new node under key m whose fields are those
\* of src (DefaultFields when src is NULL), with no children, its parent n
\* and its member key m; nothing else changes.
PushMemberAttaches(h, n, m, fields) ==
    LET r == push_member(h, n, m)
        c == r.ret.node
    IN  /\ r.ret.err = "none"
        /\ c \notin DOMAIN h
        /\ DOMAIN r.h = DOMAIN h \cup {c}
        /\ r.h[n] = [h[n] EXCEPT !.member_children[m] = c]
        /\ \A s \in DOMAIN h \ {n} : r.h[s] = h[s]
        /\ r.h[c].parent = n
        /\ r.h[c].type = m.member_type
        /\ r.h[c].active_member = m
        /\ r.h[c].children = NoChildren
        /\ r.h[c].member_children = NoMemberChildren
        /\ Fields(r.h, c) = fields

\* C22: push_member follows the precedence of push<T>().  A node whose
\* member map holds the key hands back that node and changes nothing;
\* otherwise, on a node with a parent where find_member resolves the key, a
\* new member node with the fields of the resolved node is attached;
\* otherwise a default-built member node is attached.
C22_PushMemberPrecedence ==
    \A n \in nodes, m \in MemberIds :
        LET it == heap[n].member_children[m]
            found == find_member(heap, n, m)
        IN  /\ found.err = "none"
            /\ IF it # NULL
               THEN push_member(heap, n, m) = [h |-> heap, ret |-> Ok(it)]
               ELSE IF has_parent(heap, n) /\ found.node # NULL
               THEN PushMemberAttaches(heap, n, m, Fields(heap, found.node))
               ELSE PushMemberAttaches(heap, n, m, DefaultFields(m.member_type))

\* A heap in which all three branches happen: a node reuses its member node
\* of a, a node below the root without member node of b copies the fields,
\* set before, of the node find_member resolves, and the root, where
\* nothing is resolved for b, gets a default node.
C22_Witness ==
    /\ \E n \in nodes :
          /\ heap[n].member_children[Member_a] # NULL
          /\ push_member(heap, n, Member_a).h = heap
    /\ \E n \in nodes :
          LET found == find_member(heap, n, Member_b)
          IN  /\ has_parent(heap, n)
              /\ heap[n].member_children[Member_b] = NULL
              /\ found.node # NULL
              /\ Fields(heap, found.node) # DefaultFields("int")
              /\ PushMemberAttaches(heap, n, Member_b, Fields(heap, found.node))
    /\ heap[Root].member_children[Member_b] = NULL
    /\ PushMemberAttaches(heap, Root, Member_b, DefaultFields("int"))

\* A get_member call r on heap h attached a new default-built node under key
\* m to n and returned it, and both forms of get_member on n then return
\* that node and change nothing.
GetMemberInserted(h, n, m, r, auto_insert) ==
    LET c == r.ret.node
    IN  /\ r.ret.err = "none"
        /\ c \notin DOMAIN h
        /\ DOMAIN r.h = DOMAIN h \cup {c}
        /\ r.h[n].member_children[m] = c
        /\ r.h[c].parent = n
        /\ r.h[c].type = m.member_type
        /\ Fields(r.h, c) = DefaultFields(m.member_type)
        /\ get_member(r.h, n, m, auto_insert) = [h |-> r.h, ret |-> Ok(c)]
        /\ get_member_runtime(r.h, n, m.struct_type, m.member_type, m.offset,
                              auto_insert) = [h |-> r.h, ret |-> Ok(c)]

NewAndChildless(h, r) ==
    /\ r.ret.node \notin DOMAIN h
    /\ r.h[r.ret.node].children = NoChildren
    /\ r.h[r.ret.node].member_children = NoMemberChildren

\* C24: a node that push<T>() or push_member creates as a copy of a node
\* found by the lookup starts with an empty children map and an empty
\* member_children map, and the node it was copied from keeps its own.
C24_CopyStartsChildless ==
    \A n \in nodes :
        has_parent(heap, n)
        => /\ \A T \in Types :
                 LET found == find(heap, n, T, InvalidMember)
                     r == _push(heap, n, T)
                 IN  (/\ heap[n].children[T] = NULL
                      /\ found.err = "none"
                      /\ found.node # NULL)
                     => /\ r.ret.err = "none"
                        /\ NewAndChildless(heap, r)
                        /\ found.node # n => r.h[found.node] = heap[found.node]
           /\ \A m \in MemberIds :
                 LET found == find_member(heap, n, m)
                     r == push_member(heap, n, m)
                 IN  (/\ heap[n].member_children[m] = NULL
                      /\ found.err = "none"
                      /\ found.node # NULL)
                     => /\ r.ret.err = "none"
                        /\ NewAndChildless(heap, r)
                        /\ found.node # n => r.h[found.node] = heap[found.node]

\* A heap with a node below the root on which push<int>() and
\* push_member<b>() each copy a node that holds a child itself, and the
\* copies hold none.
C24_Witness ==
    \E n \in nodes :
        LET found == find(heap, n, "int", InvalidMember)
            foundm == find_member(heap, n, Member_b)
        IN  /\ has_parent(heap, n)
            /\ heap[n].children["int"] = NULL
            /\ heap[n].member_children[Member_b] = NULL
            /\ found.node # NULL
            /\ foundm.node # NULL
            /\ \/ heap[found.node].children # NoChildren
               \/ heap[found.node].member_children # NoMemberChildren
            /\ \/ heap[foundm.node].children # NoChildren
               \/ heap[foundm.node].member_children # NoMemberChildren
            /\ NewAndChildless(heap, _push(heap, n, "int"))
            /\ NewAndChildless(heap, push_member(heap, n, Member_b))

\* C25: push_default<T>() on a node with no child for T attaches a
\* default-built child there, whatever nodes of T the lookup from that node
\* would resolve, and changes no other node: a holder of T further up keeps
\* its values.
C25_PushDefaultIgnoresAncestors ==
    \A n \in nodes, T \in Types :
        heap[n].children[T] = NULL
        => LET r == push_default(heap, n, T)
               c == r.ret.node
           IN  /\ r.ret.err = "none"
               /\ c \notin nodes
               /\ DOMAIN r.h = nodes \cup {c}
               /\ r.h[c] = [default_object(T) EXCEPT !.parent = n]
               /\ r.h[n] = [heap[n] EXCEPT !.children[T] = c]
               /\ \A s \in nodes \ {n} : r.h[s] = heap[s]

\* A heap with a node below the root that has no int child while the root
\* holds an int child with values set: push<int>() there would copy them,
\* push_default<int>() attaches the defaults.
C25_Witness ==
    \E n \in nodes :
        LET found == find(heap, n, "int", InvalidMember)
            r == push_default(heap, n, "int")
        IN  /\ has_parent(heap, n)
            /\ heap[n].children["int"] = NULL
            /\ found.node # NULL
            /\ found.node = heap[Root].children["int"]
            /\ Fields(heap, found.node) # DefaultFields("int")
            /\ Fields(_push(heap, n, "int").h, _push(heap, n, "int").ret.node)
                  = Fields(heap, found.node)
            /\ Fields(r.h, r.ret.node) = DefaultFields("int")
            /\ r.h[found.node] = heap[found.node]

\* What the claim says find<T>() returns on n: the T child of the nearest
\* node, from n up, that holds one, and nullptr when there is none.
FindReturnsNearest(h, n, T) ==
    LET holder == NearestHolder(h, n, T)
    IN  find(h, n, T, InvalidMember)
           = IF holder = NULL THEN Ok(NULL) ELSE Ok(h[holder].children[T])

\* C26 (as claimed): find<T>() returns the T child of the nearest node
\* holding one on the path from the node of the call to the root, or
\* nullptr when no node on that path holds one.  The lookup is a const
\* member function that reads the heap; it has no heap to hand back.
C26_FindReturnsNearestHolder ==
    \A n \in nodes, T \in Types : FindReturnsNearest(heap, n, T)

\* C26 (amended): the same, when no node the walk leaves, from the node of
\* the call up to the nearest holder (up to the root when there is none),
\* carries a member key.
C26_FindReturnsNearestHolder_NoMemberKey ==
    \A n \in nodes, T \in Types :
        MemberKeyFree(heap, n, NearestHolder(heap, n, T))
            => FindReturnsNearest(heap, n, T)

\* A heap in which find<int>() on a node two parents below the root climbs
\* to the root's int child, whose fields are set, and find<TestStruct>() on
\* a node below the root finds nothing.
C26_Witness ==
    /\ \E n \in nodes :
          /\ has_parent(heap, n)
          /\ has_parent(heap, heap[n].parent)
          /\ NearestHolder(heap, n, "int") = Root
          /\ MemberKeyFree(heap, n, Root)
          /\ Fields(heap, heap[Root].children["int"]) # DefaultFields("int")
          /\ find(heap, n, "int", InvalidMember) = Ok(heap[Root].children["int"])
    /\ \E n \in nodes :
          /\ has_parent(heap, n)
          /\ NearestHolder(heap, n, "TestStruct") = NULL
          /\ MemberKeyFree(heap, n, NULL)
          /\ find(heap, n, "TestStruct", InvalidMember) = Ok(NULL)

\* The fields get<T>() on n resolves to.
GetFields(h, n, T) ==
    LET g == _get(h, n, T, TRUE) IN Fields(g.h, g.ret.node)

\* C27: a scope object copy-constructed from the root scope is an
\* independent configuration.  No node is owned by both trees, and a setter
\* applied to what push<int>() returns on the copy leaves the fields
\* get<int>() resolves to on the original as they were.
C27_CopyIsIndependent ==
    CopyRoot \in nodes
    => /\ owned(heap, {}, {Root}) \cap owned(heap, {}, {CopyRoot}) = {}
       /\ LET r == _push(heap, CopyRoot, "int")
          IN  /\ \A v \in MinVals :
                     GetFields(min(r.h, r.ret.node, v).h, Root, "int")
                        = GetFields(heap, Root, "int")
              /\ \A v \in MaxVals :
                     GetFields(max(r.h, r.ret.node, v).h, Root, "int")
                        = GetFields(heap, Root, "int")

\* n is the node its parent holds under the member key m.
IsMemberNode(h, n, m) ==
    /\ has_parent(h, n)
    /\ h[h[n].parent].member_children[m] = n

\* C28: get<M>() on the member node of a field of type M that has no child
\* for M of its own returns that member node itself and creates nothing.
C28_GetOnMemberNodeIsItself ==
    \A n \in nodes, m \in MemberIds :
        (IsMemberNode(heap, n, m) /\ heap[n].children[m.member_type] = NULL)
            => _get(heap, n, m.member_type, SVH_AUTO_INSERT)
                  = [h |-> heap, ret |-> Ok(n)]

\* C29: push<M>() on the member node of a field of type M that has no child
\* for M of its own attaches to it a new child whose fields are copied
\* from the member node's payload.
C29_PushOnMemberNodeCopiesIt ==
    \A n \in nodes, m \in MemberIds :
        (IsMemberNode(heap, n, m) /\ heap[n].children[m.member_type] = NULL)
            => LET r == _push(heap, n, m.member_type)
                   c == r.ret.node
               IN  /\ r.ret.err = "none"
                   /\ c \notin nodes
                   /\ r.h[n].children[m.member_type] = c
                   /\ r.h[c].parent = n
                   /\ Fields(r.h, c) = Fields(heap, n)
                   /\ Fields(r.h, n) = Fields(heap, n)

\* C30: type keys ignore cv-qualification.  push and get with a
\* cv-qualified form of T do what they do with T itself, and after a push
\* that succeeds all four of push<cv T>(), push<T>(), get<cv T>() and
\* get<T>() on that node return the same child and change nothing.
C30_CvIgnoredInTypeKeys ==
    \A n \in nodes, Q \in CvTypes :
        LET T == remove_cv_t(Q)
            r == push(heap, n, <<Q>>)
            same == [h |-> r.h, ret |-> r.ret]
        IN  /\ get_type_key(Q) = get_type_key(T)
            /\ r = push(heap, n, <<T>>)
            /\ get(heap, n, <<Q>>, SVH_AUTO_INSERT) = get(heap, n, <<T>>, SVH_AUTO_INSERT)
            /\ r.ret.err = "none"
               => /\ r.h[n].children[T] = r.ret.node
                  /\ r.h[r.ret.node].type = T
                  /\ push(r.h, n, <<Q>>) = same
                  /\ push(r.h, n, <<T>>) = same
                  /\ get(r.h, n, <<Q>>, SVH_AUTO_INSERT) = same
                  /\ get(r.h, n, <<T>>, SVH_AUTO_INSERT) = same

\* A heap in which the root holds an int child with both fields set, as
\* after root.push<const int>().min(-50).max(50): get<const int>() returns
\* that child, and push<const volatile int>() returns it as well.
C30_Witness ==
    LET c == heap[Root].children["int"]
    IN  /\ c # NULL
        /\ Fields(heap, c) # DefaultFields("int")
        /\ get(heap, Root, <<"const int">>, SVH_AUTO_INSERT) = [h |-> heap, ret |-> Ok(c)]
        /\ push(heap, Root, <<"const volatile int">>) = [h |-> heap, ret |-> Ok(c)]
        /\ push(heap, Root, <<"int">>) = [h |-> heap, ret |-> Ok(c)]

\* The node x and the nodes above it along the parent pointers.
RECURSIVE AncestorsOrSelf(_, _)
AncestorsOrSelf(h, x) ==
    IF x = NULL THEN {} ELSE {x} \cup AncestorsOrSelf(h, h[x].parent)

\* C31: pop(0) on any node, the root included, returns that node itself,
\* and pop with any integer count either returns the node or one of its
\* ancestors or fails with 'No parent to pop to'.
C31_PopZeroReturnsSelf ==
    \A n \in nodes :
        /\ pop(heap, n, 0) = Ok(n)
        /\ \A count \in (-1)..(MaxNodes + 1) :
              \/ pop(heap, n, count) = Throw(NoParent)
              \/ /\ pop(heap, n, count).err = "none"
                 /\ pop(heap, n, count).node \in AncestorsOrSelf(heap, n)

\* C32: in every reachable heap a node carries a valid member key exactly
\* when a node holds it in its member map, and then that node is its parent
\* and holds it under that very key; the type-keyed children and the root
\* carry no member key.
C32_MemberKeyIffInMemberMap ==
    /\ ~is_valid(heap[Root].active_member)
    /\ \A n \in nodes :
          LET k == heap[n].active_member
              holders == {p \in nodes : \E m \in MemberIds :
                             heap[p].member_children[m] = n}
          IN  /\ is_valid(k) <=> holders # {}
              /\ is_valid(k)
                 => /\ holders = {heap[n].parent}
                    /\ heap[heap[n].parent].member_children[k] = n
              /\ (\E p \in nodes, T \in Types : heap[p].children[T] = n)
                 => ~is_valid(k)

\* C33: push_member<m>() on a node without member node for m, the root
\* included, gives the new node the fields of the node get_member<m>()
\* called there just before would have resolved, and the default fields
\* only when nothing would have been resolved.
C33_PushMemberCopiesWhatGetMemberResolves ==
    \A n \in nodes, m \in MemberIds :
        LET found == find_member(heap, n, m)
            r == push_member(heap, n, m)
        IN  (heap[n].member_children[m] = NULL /\ found.err = "none")
            => /\ r.ret.err = "none"
               /\ r.ret.node \notin nodes
               /\ Fields(r.h, r.ret.node)
                     = IF found.node # NULL THEN Fields(heap, found.node)
                       ELSE DefaultFields(m.member_type)

\* What a const form returns, given the result of its lookup: the node the
\* lookup resolved, the not-found error when it resolved none, and the
\* lookup's own error otherwise; with the heap as it was in each case.
ConstOutcome(h, found, notfound) ==
    [h |-> h,
     ret |-> IF found.err = "none" /\ found.node = NULL
             THEN Throw(notfound) ELSE found]

\* C34: the const forms of get<T>(), of the variadic get and of get_member
\* create no node, whatever SVH_AUTO_INSERT is.  They leave the heap as it
\* was and return the node find, find_member or find_member_runtime
\* resolves, or fail with 'Type not found' or 'Member settings not found'
\* when it resolves none.
C34_ConstGetNeverInserts ==
    \A n \in nodes :
        /\ \A T \in CvTypes :
              get_const(heap, n, <<T>>)
                 = ConstOutcome(heap, find(heap, n, remove_cv_t(T), InvalidMember),
                                TypeNotFound)
        /\ \A Ts \in TypeLists :
              /\ get_const(heap, n, Ts).h = heap
              /\ get_const(heap, n, Ts) = get(heap, n, Ts, FALSE)
        /\ \A m \in MemberIds :
              get_member_const(heap, n, m)
                 = ConstOutcome(heap, find_member(heap, n, m), MemberNotFound)
        /\ \A off \in RuntimeOffsets :
              get_member_runtime_const(heap, n, "TestStruct", "int", off)
                 = ConstOutcome(heap,
                                find_member_runtime(heap, n, "TestStruct", "int", off),
                                MemberNotFound)

\* A heap, auto-insert enabled, with a node on which the non-const get<int>()
\* and get_member<b>() would insert a node while the const forms fail and
\* keep the heap, and on which get<TestStruct>() const returns the root's
\* TestStruct child.
C34_Witness ==
    \E n \in nodes :
        /\ SVH_AUTO_INSERT
        /\ has_parent(heap, n)
        /\ _get(heap, n, "int", SVH_AUTO_INSERT).h # heap
        /\ get_const(heap, n, <<"int">>) = [h |-> heap, ret |-> Throw(TypeNotFound)]
        /\ get_member(heap, n, Member_b, SVH_AUTO_INSERT).h # heap
        /\ get_member_const(heap, n, Member_b)
              = [h |-> heap, ret |-> Throw(MemberNotFound)]
        /\ heap[Root].children["TestStruct"] # NULL
        /\ get_const(heap, n, <<"TestStruct">>)
              = [h |-> heap, ret |-> Ok(heap[Root].children["TestStruct"])]

\* Every object of heap h is an object of heap g with the fields it has in h.
KeepsFields(h, g) ==
    \A s \in DOMAIN h : s \in DOMAIN g /\ Fields(g, s) = Fields(h, s)

\* C35: push<T>(), push_member, get<T>() and get_member, in all their
\* forms, change the fields of no object that existed before the call,
\* whether they return or throw.  find, find_member, pop and pop_to_root
\* write nothing at all: they hand back a pointer and no heap.
C35_OnlySettersChangeFields ==
    \A n \in nodes :
        /\ \A T \in CvTypes :
              /\ KeepsFields(heap, push(heap, n, <<T>>).h)
              /\ KeepsFields(heap, get(heap, n, <<T>>, SVH_AUTO_INSERT).h)
        /\ \A Ts \in TypeLists :
              /\ KeepsFields(heap, push(heap, n, Ts).h)
              /\ KeepsFields(heap, get(heap, n, Ts, SVH_AUTO_INSERT).h)
        /\ \A m \in MemberIds :
              /\ KeepsFields(heap, push_member(heap, n, m).h)
              /\ KeepsFields(heap, get_member(heap, n, m, SVH_AUTO_INSERT).h)
        /\ \A off \in RuntimeOffsets :
              KeepsFields(heap, get_member_runtime(heap, n, "TestStruct", "int", off,
                                                   SVH_AUTO_INSERT).h)

\* A heap with an int child of the root whose fields are set: push<int>() on
\* the root hands it back with its fields, push<int>() below copies them and
\* keeps the fields of every object, while a setter and push_default<int>()
\* on the root change the fields of that child.
C35_Witness ==
    \E n \in nodes :
        LET c == heap[Root].children["int"]
        IN  /\ c # NULL
            /\ Fields(heap, c) # DefaultFields("int")
            /\ push(heap, Root, <<"int">>) = [h |-> heap, ret |-> Ok(c)]
            /\ has_parent(heap, n)
            /\ push(heap, n, <<"int">>).h # heap
            /\ KeepsFields(heap, push(heap, n, <<"int">>).h)
            /\ \E v \in MaxVals : ~KeepsFields(heap, max(heap, c, v).h)
            /\ ~KeepsFields(heap, push_default(heap, Root, "int").h)

\* C36: get<T>() is stable.  After a get<T>() that returned, a second
\* get<T>() on that node returns the same node and leaves the heap as the
\* first call left it, also when the first call inserted the node; and
\* push<T>() right after an inserting get<T>() returns that node too.
C36_GetIsStable ==
    \A n \in nodes, T \in CvTypes :
        LET r == get(heap, n, <<T>>, SVH_AUTO_INSERT)
            same == [h |-> r.h, ret |-> r.ret]
        IN  r.ret.err = "none"
            => /\ get(r.h, n, <<T>>, SVH_AUTO_INSERT) = same
               /\ r.h # heap => push(r.h, n, <<T>>) = same

\* A heap, auto-insert enabled, with a node below the root on which
\* get<TestStruct>() inserts a node, which the second get<TestStruct>() and
\* push<TestStruct>() return, and on which get<int>() twice returns the
\* root's int child.
C36_Witness ==
    \E n \in nodes :
        LET r == get(heap, n, <<"TestStruct">>, SVH_AUTO_INSERT)
            c == heap[Root].children["int"]
        IN  /\ SVH_AUTO_INSERT
            /\ has_parent(heap, n)
            /\ r.ret.err = "none"
            /\ r.ret.node \notin nodes
            /\ r.h[n].children["TestStruct"] = r.ret.node
            /\ get(r.h, n, <<"TestStruct">>, SVH_AUTO_INSERT) = [h |-> r.h, ret |-> r.ret]
            /\ push(r.h, n, <<"TestStruct">>) = [h |-> r.h, ret |-> r.ret]
            /\ c # NULL /\ c # n
            /\ get(heap, n, <<"int">>, SVH_AUTO_INSERT) = [h |-> heap, ret |-> Ok(c)]
====
